---- MODULE Spec2Model ----
(***************************************************************************)
(* Model of package httpanic (src/httpanic.go): the Reason value, the      *)
(* Because builder and its Detail modifiers, the two Renderers, and the    *)
(* recovery wrapper GracefullyRender / Gracefully whose deferred           *)
(* attemptToRecover classifies the payload of a panic raised by the        *)
(* wrapped handler.  One behaviour of the model is one request served by   *)
(* one wrapped handler.                                                    *)
(***************************************************************************)
EXTENDS Integers, Sequences, FiniteSets, TLC

\* ------------------------------------------------------------- bounds
\* Longest list of Details handed to Because.
MaxDeets == 3
\* Most body chunks the wrapped handler writes before it returns or panics.
MaxWrites == 1

\* ---------------------------------------------------------- constants
\* http.StatusInternalServerError, the default of Because.
StatusInternalServerError == 500
\* http.StatusOK, what a body write implies on a sink with no status yet.
StatusOK == 200

\* ------------------------------------------------------------- values
\* An error value: its identity (the pointer errors.New returned) and the
\* text its Error() method returns.
errForTesting == [id |-> "errForTesting", msg |-> "rut-ro raggy"]
thisIsAnError == [id |-> "thisIsAnError", msg |-> "this is an error"]
NoErr == [id |-> "nil", msg |-> ""]
Errs == {errForTesting, thisIsAnError}

\* errors.New(text): a fresh error, equal to no package-level error, whose
\* string form is text.
ErrorsNew(text) == [id |-> "errors.New", msg |-> text]

\* The error the sink returns from a failed body write.
errWrite == [id |-> "errWrite", msg |-> "write: broken pipe"]
\* *runtime.PanicNilError, what recover() returns for panic(nil) since go1.21.
errPanicNil == [id |-> "runtime.PanicNilError",
                msg |-> "panic called with nil argument (obsolete)"]

Statuses == {400, 420}
Explanations == {"", "Chill, man!"}
Strings == {"this is a string"}

\* type Reason struct { error; Status int; Explanation string }
NoReason == [error |-> NoErr, Status |-> 0, Explanation |-> ""]

\* Reason.Error(), promoted from the embedded error.
ReasonError(r) == r.error.msg

\* Reason.Unwrap()
Unwrap(r) == r.error

\* ------------------------------------------------------------ Details
\* A Detail is a closure over one value that assigns one field of the Reason.
WithStatus(status) == [field |-> "Status", status |-> status, explanation |-> ""]
WithExplanation(explanation) ==
    [field |-> "Explanation", status |-> 0, explanation |-> explanation]

Details == {WithStatus(s) : s \in Statuses}
             \cup {WithExplanation(e) : e \in Explanations}

\* d(&r): the body of the closure.
ApplyDetail(d, r) ==
    IF d.field = "Status"
    THEN [r EXCEPT !.Status = d.status]
    ELSE [r EXCEPT !.Explanation = d.explanation]

RECURSIVE ApplyDeets(_, _)
\* for _, d := range deets { d(&r) }
ApplyDeets(r, deets) ==
    IF deets = <<>> THEN r
    ELSE ApplyDeets(ApplyDetail(Head(deets), r), Tail(deets))

RECURSIVE ApplyDeetsFirstWins(_, _)
\* The loop run so that the first Detail given wins.
ApplyDeetsFirstWins(r, deets) ==
    IF deets = <<>> THEN r
    ELSE ApplyDetail(Head(deets), ApplyDeetsFirstWins(r, Tail(deets)))

\* Because with the Details applied last-to-first.
BecauseFirstWins(e, deets) ==
    ApplyDeetsFirstWins(
        [error |-> e, Status |-> StatusInternalServerError, Explanation |-> ""],
        deets)

\* func Because(e error, deets ...Detail) Reason
Because(e, deets) ==
    ApplyDeets(
        [error |-> e, Status |-> StatusInternalServerError, Explanation |-> ""],
        deets)

DeetSeqs == UNION {[1..n -> Details] : n \in 0..MaxDeets}

\* --------------------------------------------------------------- JSON
\* The object json.Marshal emits for a struct, as its members in order.
JField(key, val) == [key |-> key, val |-> val]

\* MarshalJSON with the Status field added to the struct.
MarshalJSONWithStatus(r) ==
    <<JField("error", ReasonError(r)), JField("status", ToString(r.Status))>>
      \o (IF r.Explanation # "" THEN <<JField("explanation", r.Explanation)>>
          ELSE <<>>)

\* func (r Reason) MarshalJSON(): the anonymous struct jr has the members
\* Error (json:"error") and Explanation (json:"explanation,omitempty").
MarshalJSON(r) ==
    <<JField("error", ReasonError(r))>>
      \o (IF r.Explanation # "" THEN <<JField("explanation", r.Explanation)>>
          ELSE <<>>)

\* ----------------------------------------------------- response sink
\* http.ResponseWriter: the status line (0 while unset), the Content-Type
\* header, and the body as the chunks written so far.  A chunk is the JSON
\* object it holds (if any) and the raw text that follows it.
NewSink == [Code |-> 0, wroteHeader |-> FALSE, ContentType |-> "", Body |-> <<>>]

Chunk(json, tail) == [json |-> json, tail |-> tail]

\* w.WriteHeader(code): effective only if no status has been written yet.
WriteHeader(w, code) ==
    IF w.wroteHeader THEN w
    ELSE [w EXCEPT !.Code = code, !.wroteHeader = TRUE]

\* w.Header().Set("Content-Type", v)
SetContentType(w, v) == [w EXCEPT !.ContentType = v]

\* w.Write(b): writes the status 200 first if none was written.
Write(w, chunk) ==
    LET w1 == WriteHeader(w, StatusOK)
    IN [w1 EXCEPT !.Body = Append(w1.Body, chunk)]

\* ------------------------------------------------------------ payloads
\* The argument of panic(), as recover() sees it: a tagged value.  kind
\* "none" stands for "the goroutine is not panicking".
Payload(kind, reason, err, str) ==
    [kind |-> kind, reason |-> reason, err |-> err, str |-> str]

NoPanic == Payload("none", NoReason, NoErr, "")
NilPayload == Payload("nil", NoReason, NoErr, "")
ReasonPayload(r) == Payload("Reason", r, NoErr, "")
ErrorPayload(e) == Payload("error", NoReason, e, "")
StringPayload(s) == Payload("string", NoReason, NoErr, s)
\* struct{ string }{...}: neither a Reason, an error nor a string.
OtherPayload(s) == Payload("other", NoReason, NoErr, s)

Classified == {"Reason", "error", "string"}

\* The Go runtimes the package builds with differ on panic(nil).
GoRuntimes == {"legacy", "go1.21"}

\* r := recover(): nil when the goroutine is not panicking; for panic(nil)
\* nil before go1.21 and a *runtime.PanicNilError since.
Recover(go, p) ==
    IF p.kind = "none" THEN NilPayload
    ELSE IF p.kind = "nil"
         THEN IF go = "legacy" THEN NilPayload ELSE ErrorPayload(errPanicNil)
         ELSE p

\* A Reason embeds error, so a Reason value also satisfies the error interface.
IsReason(r) == r.kind = "Reason"
IsError(r) == r.kind \in {"Reason", "error"}
IsString(r) == r.kind = "string"

\* The value of `reason` in the `case error:` arm.
AsError(r) ==
    IF r.kind = "Reason"
    THEN [id |-> "Reason", msg |-> ReasonError(r.reason)]
    ELSE r.err

\* The type switch with `case error` placed before `case Reason`.
TypeSwitchErrorFirst(r) ==
    IF IsError(r) THEN "error"
    ELSE IF IsReason(r) THEN "Reason"
    ELSE IF IsString(r) THEN "string"
    ELSE "default"

\* switch reason := r.(type): the first case that matches, in source order.
TypeSwitch(r) ==
    IF IsReason(r) THEN "Reason"
    ELSE IF IsError(r) THEN "error"
    ELSE IF IsString(r) THEN "string"
    ELSE "default"

\* ----------------------------------------------------------- renderers
\* type Renderer func(http.ResponseWriter, Reason).  A call of a Renderer
\* yields the sink as it left it and the payload it panicked with (NoPanic
\* when it returned).  `fault` is what goes wrong during the call, if
\* anything: NoPanic, or the payload of the failure.
Rendered(w, panic) == [w |-> w, panic |-> panic]

\* A default renderer that ignores the Reason and always answers 500.
defaultRendererAlways500(w, reason) ==
    Rendered(WriteHeader(w, StatusInternalServerError), NoPanic)

\* var defaultRenderer: sends the Reason's status and nothing else.
defaultRenderer(w, reason) ==
    Rendered(WriteHeader(w, reason.Status), NoPanic)

\* func AsJSON: Content-Type, status, then the encoded Reason and a newline;
\* panics with the encoder's error when the write to the sink fails.
AsJSON(w, reason, fault) ==
    LET w1 == SetContentType(w, "application/json; charset=utf-8")
        w2 == WriteHeader(w1, reason.Status)
    IN IF fault.kind = "none"
       THEN Rendered(Write(w2, Chunk(MarshalJSON(reason), "\n")), NoPanic)
       ELSE Rendered(w2, ErrorPayload(errWrite))

\* A caller's own Renderer, such as tcRender of the tests: it inspects the
\* Reason, writes nothing, and may panic.
customRender(w, reason, fault) == Rendered(w, fault)

Renderers == {"defaultRenderer", "AsJSON", "custom"}

\* render(w, reason) for the configured Renderer.
Render(render, w, reason, fault) ==
    IF render = "defaultRenderer" THEN defaultRenderer(w, reason)
    ELSE IF render = "AsJSON" THEN AsJSON(w, reason, fault)
    ELSE customRender(w, reason, fault)

RenderFaults ==
    {NoPanic, ErrorPayload(errWrite), OtherPayload("renderer failure")}

\* ------------------------------------------------------------- recovery
\* cuz as GracefullyRender binds it (Because), called with no Details.
Cuz(e) == Because(e, <<>>)

\* What the deferred call leaves behind: the sink, the Reasons handed to the
\* Renderer in order, the payload the Renderer panicked with, and the
\* payload of the panic that leaves the wrapper (NoPanic: normal return).
Recovered(w, calls, renderPanic, panic) ==
    [w |-> w, calls |-> calls, renderPanic |-> renderPanic, panic |-> panic]

AfterRender(reason, res) == Recovered(res.w, <<reason>>, res.panic, res.panic)

\* attemptToRecover with a second recover around the render call.
attemptToRecoverTwice(go, w, render, fault, p) ==
    LET r == Recover(go, p)
        arm == TypeSwitch(r)
        reason == IF arm = "Reason" THEN r.reason
                  ELSE IF arm = "error" THEN Cuz(AsError(r))
                  ELSE Cuz(ErrorsNew(r.str))
        res == Render(render, w, reason, fault)
    IN IF r.kind = "nil" THEN Recovered(w, <<>>, NoPanic, NoPanic)
       ELSE IF arm = "default" THEN Recovered(w, <<>>, NoPanic, r)
       ELSE Recovered(res.w, <<reason>>, res.panic, NoPanic)

\* attemptToRecover as an earlier revision had it: every panic, and the
\* absence of one, is answered with a rendered 500.
attemptToRecoverAlwaysRender(go, w, render, fault, p) ==
    LET r == Recover(go, p)
        arm == TypeSwitch(r)
        reason == IF arm = "Reason" THEN r.reason
                  ELSE IF arm = "error" THEN Cuz(AsError(r))
                  ELSE Cuz(ErrorsNew(r.str))
    IN AfterRender(reason, Render(render, w, reason, fault))

\* attemptToRecover that skips the render call.
attemptToRecoverNoRender(go, w, render, fault, p) ==
    LET r == Recover(go, p)
    IN IF r.kind = "nil" \/ TypeSwitch(r) # "default"
       THEN Recovered(w, <<>>, NoPanic, NoPanic)
       ELSE Recovered(w, <<>>, NoPanic, r)

\* func attemptToRecover(w, render, cuz), run as a deferred call while the
\* goroutine panics with p (NoPanic: the handler returned).
attemptToRecover(go, w, render, fault, p) ==
    LET r == Recover(go, p)
        arm == TypeSwitch(r)
    IN IF r.kind = "nil" THEN Recovered(w, <<>>, NoPanic, NoPanic)
       ELSE IF arm = "Reason"
            THEN AfterRender(r.reason, Render(render, w, r.reason, fault))
       ELSE IF arm = "error"
            THEN AfterRender(Cuz(AsError(r)),
                             Render(render, w, Cuz(AsError(r)), fault))
       ELSE IF arm = "string"
            THEN AfterRender(Cuz(ErrorsNew(r.str)),
                             Render(render, w, Cuz(ErrorsNew(r.str)), fault))
       ELSE Recovered(w, <<>>, NoPanic, r)

\* ---------------------------------------------------------------- state
VARIABLES
    go,           \* the Go runtime the package is built with
    render,       \* the Renderer given to GracefullyRender
    pc,           \* "Running": inside next.ServeHTTP; "Done": the wrapped
                  \* handler returned; "Panicked": a panic left the wrapper;
                  \* "Marshalled": the Reason was marshalled instead
    w,            \* the response sink
    wHandler,     \* the sink as next.ServeHTTP left it
    p,            \* the payload next.ServeHTTP panicked with
    renders,      \* the Reasons handed to the Renderer, in order
    renderPanic,  \* the payload the Renderer panicked with
    escaped,      \* the payload of the panic that left the wrapper
    becauseArgs,  \* the arguments of the handler's call of Because
    reason,       \* the Reason that call returned
    marshalled    \* the result of json.Marshal(reason)

vars == <<go, render, pc, w, wHandler, p, renders, renderPanic, escaped,
          becauseArgs, reason, marshalled>>

wrapperVars == <<go, render, pc, wHandler, p, renders, renderPanic, escaped>>

\* func GracefullyRender(next, render) / func Gracefully(next): the handler
\* is wrapped with one of the Renderers and is about to serve one request.
Init ==
    /\ go \in GoRuntimes
    /\ render \in Renderers
    /\ pc = "Running"
    /\ w = NewSink
    /\ wHandler = NewSink
    /\ p = NoPanic
    /\ renders = <<>>
    /\ renderPanic = NoPanic
    /\ escaped = NoPanic
    /\ becauseArgs = [called |-> FALSE, e |-> NoErr, deets |-> <<>>]
    /\ reason = NoReason
    /\ marshalled = [called |-> FALSE, obj |-> <<>>]

\* The handler builds its Reason: reason := Because(e, deets...).
HandlerBecause(e, deets) ==
    /\ pc = "Running"
    /\ ~becauseArgs.called
    /\ becauseArgs' = [called |-> TRUE, e |-> e, deets |-> deets]
    /\ reason' = Because(e, deets)
    /\ UNCHANGED <<wrapperVars, w, marshalled>>

\* json.Marshal(reason), which calls Reason.MarshalJSON; the caller does
\* nothing else with the Reason (pc "Marshalled").
Marshal ==
    /\ pc = "Running"
    /\ becauseArgs.called
    /\ w = NewSink
    /\ marshalled' = [called |-> TRUE, obj |-> MarshalJSON(reason)]
    /\ pc' = "Marshalled"
    /\ UNCHANGED <<go, render, wHandler, p, renders, renderPanic, escaped,
                   w, becauseArgs, reason>>

HandlerCodes == {404}

\* The handler writes a status of its own.
HandlerWriteHeader(code) ==
    /\ pc = "Running"
    /\ ~w.wroteHeader
    /\ w' = WriteHeader(w, code)
    /\ UNCHANGED <<wrapperVars, becauseArgs, reason, marshalled>>

\* The handler sets a Content-Type of its own.
HandlerSetContentType ==
    /\ pc = "Running"
    /\ w.ContentType = ""
    /\ w' = SetContentType(w, "text/plain")
    /\ UNCHANGED <<wrapperVars, becauseArgs, reason, marshalled>>

\* The handler writes body bytes: fmt.Fprintln(w, "Looks good!").
HandlerWrite ==
    /\ pc = "Running"
    /\ Len(w.Body) < MaxWrites
    /\ w' = Write(w, Chunk(<<>>, "Looks good!\n"))
    /\ UNCHANGED <<wrapperVars, becauseArgs, reason, marshalled>>

\* The wrapped handler's exit: next.ServeHTTP returned (q = NoPanic) or
\* panicked with q, and the deferred attemptToRecover runs.
Exit(q, fault) ==
    LET out == attemptToRecover(go, w, render, fault, q)
    IN /\ pc = "Running"
       /\ p' = q
       /\ wHandler' = w
       /\ w' = out.w
       /\ renders' = out.calls
       /\ renderPanic' = out.renderPanic
       /\ escaped' = out.panic
       /\ pc' = IF out.panic.kind = "none" THEN "Done" ELSE "Panicked"
       /\ UNCHANGED <<go, render, becauseArgs, reason, marshalled>>

\* next.ServeHTTP returns normally.
HandlerReturn == Exit(NoPanic, NoPanic)

\* What a handler panics with.
PanicPayloads ==
    {NilPayload, OtherPayload("this would be weird")}
      \cup {ErrorPayload(e) : e \in Errs}
      \cup {StringPayload(s) : s \in Strings}
      \cup (IF becauseArgs.called THEN {ReasonPayload(reason)} ELSE {})

\* next.ServeHTTP panics with q; `fault` is what befalls the Renderer.
HandlerPanic(q, fault) == Exit(q, fault)

Next ==
    \/ \E e \in Errs, deets \in DeetSeqs : HandlerBecause(e, deets)
    \/ Marshal
    \/ \E code \in HandlerCodes : HandlerWriteHeader(code)
    \/ HandlerSetContentType
    \/ HandlerWrite
    \/ HandlerReturn
    \/ \E q \in PanicPayloads, fault \in RenderFaults : HandlerPanic(q, fault)

Spec == Init /\ [][Next]_vars

\* --------------------------------------------------------------- claims
\* The wrapped handler has finished serving: it returned or a panic left it.
Served == pc \in {"Done", "Panicked"}

\* The value set by the last Detail of deets that targets `field`, read off
\* the list itself; dflt when there is none.
LastIndex(deets, field) ==
    CHOOSE i \in DOMAIN deets :
        /\ deets[i].field = field
        /\ \A j \in DOMAIN deets : deets[j].field = field => j <= i
LastStatus(deets) ==
    IF \E i \in DOMAIN deets : deets[i].field = "Status"
    THEN deets[LastIndex(deets, "Status")].status
    ELSE 500
LastExplanation(deets) ==
    IF \E i \in DOMAIN deets : deets[i].field = "Explanation"
    THEN deets[LastIndex(deets, "Explanation")].explanation
    ELSE ""

\* C1: when the handler panics with a Reason, an error or a string and the
\* Renderer returns normally, the Renderer is called exactly once and no
\* panic leaves the wrapper (the wrapped handler returns normally).
C1_ClassifiedAbortRenderedOnce ==
    (Served /\ p.kind \in Classified /\ renderPanic.kind = "none")
        => (Len(renders) = 1 /\ pc = "Done" /\ escaped = NoPanic)

C1_Witness ==
    /\ pc = "Done"
    /\ p.kind = "string"
    /\ render = "AsJSON"
    /\ Len(renders) = 1

\* C2: the Reason handed to the Renderer is determined by the payload: a
\* Reason is passed through unchanged; an error E gives cause E, status 500,
\* no explanation; a string S gives a cause whose string form is S, status
\* 500, no explanation.
C2_RenderedReasonFromPayload ==
    (Served /\ p.kind \in Classified) =>
        /\ Len(renders) >= 1
        /\ p.kind = "Reason" => renders[1] = p.reason
        /\ p.kind = "error" =>
              renders[1] = [error |-> p.err, Status |-> 500, Explanation |-> ""]
        /\ p.kind = "string" =>
              /\ ReasonError(renders[1]) = p.str
              /\ renders[1].Status = 500
              /\ renders[1].Explanation = ""

C2_Witness ==
    /\ Served
    /\ p.kind = "Reason"
    /\ p.reason.Status = 400
    /\ p.reason.Explanation = "Chill, man!"
    /\ renders = <<p.reason>>

\* C3: Because(C, M...) has cause C, the status of the last WithStatus in M
\* (500 if none) and the explanation of the last WithExplanation in M (empty
\* if none); a Detail of one field never changes the other field.
C3_BecauseLastDetailWins ==
    becauseArgs.called =>
        /\ Unwrap(reason) = becauseArgs.e
        /\ reason.Status = LastStatus(becauseArgs.deets)
        /\ reason.Explanation = LastExplanation(becauseArgs.deets)

C3_Witness ==
    /\ becauseArgs.called
    /\ Len(becauseArgs.deets) = 3
    /\ becauseArgs.deets[1] = WithStatus(400)
    /\ becauseArgs.deets[2] = WithExplanation("Chill, man!")
    /\ becauseArgs.deets[3] = WithStatus(420)
    /\ reason.Status = 420

\* C4 as claimed: under Gracefully, a handler that panics with a Reason of
\* status S leaves the status line S, whatever it wrote before panicking.
C4_StatusLineIsReasonStatus ==
    (pc = "Done" /\ render = "defaultRenderer" /\ p.kind = "Reason")
        => w.Code = p.reason.Status

\* C4 amended: under Gracefully, a handler that panics with a Reason of
\* status S leaves the status line S if it had written neither a status nor
\* body bytes before panicking; otherwise the status line stays the one the
\* handler's own write set.
C4_StatusLineUnlessAlreadyWritten ==
    (pc = "Done" /\ render = "defaultRenderer" /\ p.kind = "Reason") =>
        IF wHandler.wroteHeader
        THEN w.Code = wHandler.Code
        ELSE w.Code = p.reason.Status

C4_Witness ==
    /\ pc = "Done"
    /\ render = "defaultRenderer"
    /\ p.kind = "Reason"
    /\ ~wHandler.wroteHeader
    /\ w.Code = 400

\* C5 as claimed: a handler that panics with nil is not recovered; the panic
\* leaves the wrapper.
C5_NilPanicEscapes ==
    (Served /\ p.kind = "nil") => pc = "Panicked"

\* C6: a payload that is non-nil and neither a Reason, an error nor a
\* string causes no render call, and a panic with the identical payload
\* leaves the wrapper.
C6_UnknownPayloadRepropagated ==
    (Served /\ p.kind = "other") =>
        /\ renders = <<>>
        /\ pc = "Panicked"
        /\ escaped = p
        /\ w = wHandler

C6_Witness ==
    /\ pc = "Panicked"
    /\ p = OtherPayload("this would be weird")
    /\ escaped = p

\* C7: when the handler returns normally there is no render call, the
\* wrapper writes nothing to the sink (status, header and body are as the
\* handler left them) and the wrapped handler returns normally.
C7_NormalReturnUntouched ==
    (Served /\ p.kind = "none") =>
        /\ renders = <<>>
        /\ w = wHandler
        /\ pc = "Done"

C7_Witness ==
    /\ pc = "Done"
    /\ p.kind = "none"
    /\ w.Code = 404
    /\ w.ContentType = "text/plain"
    /\ Len(w.Body) = 1

\* C8: when the Renderer panics while rendering a Reason, error or string
\* payload, that panic leaves the wrapper with the Renderer's payload, and
\* the Renderer was called once only.
C8_RenderPanicEscapes ==
    (Served /\ p.kind \in Classified /\ renderPanic.kind # "none") =>
        /\ pc = "Panicked"
        /\ escaped = renderPanic
        /\ Len(renders) = 1

C8_Witness ==
    /\ pc = "Panicked"
    /\ render = "AsJSON"
    /\ p.kind = "Reason"
    /\ escaped = ErrorPayload(errWrite)

\* What a JSON parser reads back from an object: its keys, and one key's value.
Keys(obj) == {obj[i].key : i \in DOMAIN obj}
Lookup(obj, k) == obj[CHOOSE i \in DOMAIN obj : obj[i].key = k].val

\* The field contract of the structured body for Reason r.
JSONContract(r, obj) ==
    /\ Len(obj) = Cardinality(Keys(obj))
    /\ Keys(obj) \subseteq {"error", "explanation"}
    /\ "error" \in Keys(obj)
    /\ Lookup(obj, "error") = ReasonError(r)
    /\ "explanation" \in Keys(obj) <=> r.Explanation # ""
    /\ r.Explanation # "" => Lookup(obj, "explanation") = r.Explanation

C10_StatusMarshalled ==
    marshalled.called =>
        \E i \in DOMAIN marshalled.obj :
            /\ marshalled.obj[i].key = "status"
            /\ marshalled.obj[i].val = ToString(reason.Status)
            /\ \E j \in 1..(i - 1) : marshalled.obj[j].key = "error"

====
